---- MODULE Spec2Model ----
(***************************************************************************)
(* Model of clipsai's two parameter validators:                            *)
(*   ClipInputValidator              (clip/clip_request_validator.py)      *)
(*   TranscribeAndClipRequestValidator                                     *)
(*                                   (transcribe_clip/clip_request_...py)  *)
(* A caller owns one parameter mapping and applies check_valid_*_data and  *)
(* impute_*_data_defaults to it.  check_valid_*_data is modelled step by   *)
(* step (pc), impute_*_data_defaults as one atomic loop over the table.    *)
(***************************************************************************)
EXTENDS Integers, Sequences, FiniteSets, TLC

VARIABLES
    heap,             \* object id -> dict contents (field name -> value)
    arg,              \* reference held by the caller: the dict handed to every call
    initial,          \* contents of the caller's dict before the first call
    pc,               \* position of the running call
    op,               \* "check" | "impute" | "none": the running/last call
    variant,          \* "input" | "request": the validator being used
    before,           \* contents of the caller's dict when the running call started
    consulted,        \* the checks the running call has run so far, in order
    texttile_config,  \* local of check_valid_*_data: reference to its dict, 0 unbound
    whisperx_config,  \* local of check_valid_request_data: reference, 0 unbound
    result,           \* what the last finished check_valid_*_data returned
    ret,              \* the reference the last finished impute_*_data_defaults returned
    exc,              \* exception propagated by the last finished call
    hist,             \* the calls finished so far, in order
    lastCheck         \* variant -> outcome of its last check since the dict changed

vars == <<heap, arg, initial, pc, op, variant, before, consulted,
          texttile_config, whisperx_config, result, ret, exc, hist, lastCheck>>

----------------------------------------------------------------------------
\* Bounds of the model

\* number of fields of the base mapping the caller changes or drops
MaxPerturb == 2

\* number of calls the caller makes on its mapping
MaxOps == 2

----------------------------------------------------------------------------
\* Python values.  A str is its sequence of characters.

NoneVal == [ty |-> "NoneType", s |-> <<>>, n |-> 0]

PyStr(chars) == [ty |-> "str", s |-> chars, n |-> 0]

PyInt(i) == [ty |-> "int", s |-> <<>>, n |-> i]

PyFloat(i) == [ty |-> "float", s |-> <<>>, n |-> i]

EmptyDict == [k \in {} |-> NoneVal]

\* d[k] = v on a dict
DictSet(d, k, v) == [x \in DOMAIN d \cup {k} |-> IF x = k THEN v ELSE d[x]]

\* del d[k]
DictDel(d, k) == [x \in DOMAIN d \ {k} |-> d[x]]

\* str.endswith(suffix)
EndsWith(chars, suffix) ==
    /\ Len(chars) >= Len(suffix)
    /\ SubSeq(chars, Len(chars) - Len(suffix) + 1, Len(chars)) = suffix

\* string literals used by the validators
s_mp3 == <<"m", "p", "3">>
s_mp4 == <<"m", "p", "4">>
s_dot_mp3 == <<".">> \o s_mp3
s_dot_mp4 == <<".">> \o s_mp4
s_high == <<"h", "i", "g", "h">>
s_max == <<"m", "a", "x">>
s_mean == <<"m", "e", "a", "n">>
s_en == <<"e", "n">>

\* "mediaFilePath must be of type mp3 or mp4. Received: "
s_ext_msg ==
    <<"m","e","d","i","a","F","i","l","e","P","a","t","h"," ",
      "m","u","s","t"," ","b","e"," ","o","f"," ","t","y","p","e"," ">>
    \o s_mp3 \o <<" ", "o", "r", " ">> \o s_mp4
    \o <<".", " ", "R","e","c","e","i","v","e","d",":"," ">>

----------------------------------------------------------------------------
\* Error strings.  kind and field name what a message is about; text is the
\* part of the message the model keeps character by character.

NoError == [kind |-> "None", field |-> "", text |-> <<>>]

Err(kind, field, text) == [kind |-> kind, field |-> field, text |-> text]

----------------------------------------------------------------------------
\* The tables of the two validators

InputFields ==
    <<"mediaFilePath", "computeDevice", "cutoffPolicy",
      "embeddingAggregationPoolMethod", "minClipTime", "maxClipTime",
      "smoothingWidth", "windowComparePoolMethod">>

InputTypes ==
    [mediaFilePath |-> {"str"},
     computeDevice |-> {"str", "NoneType"},
     cutoffPolicy |-> {"str"},
     embeddingAggregationPoolMethod |-> {"str"},
     minClipTime |-> {"float", "int"},
     maxClipTime |-> {"float", "int"},
     smoothingWidth |-> {"int"},
     windowComparePoolMethod |-> {"str"}]

RequestFields ==
    <<"mediaFilePath", "computeDevice", "precision", "languageCode",
      "whisperModelSize", "cutoffPolicy", "embeddingAggregationPoolMethod",
      "minClipTime", "maxClipTime", "smoothingWidth", "windowComparePoolMethod">>

\* RequestTypes with smoothingWidth declared (float, int) like the clip times
RequestTypesFloatWidth ==
    [mediaFilePath |-> {"str"},
     computeDevice |-> {"str", "NoneType"},
     precision |-> {"str", "NoneType"},
     languageCode |-> {"str"},
     whisperModelSize |-> {"str", "NoneType"},
     cutoffPolicy |-> {"str"},
     embeddingAggregationPoolMethod |-> {"str"},
     minClipTime |-> {"float", "int"},
     maxClipTime |-> {"float", "int"},
     smoothingWidth |-> {"float", "int"},
     windowComparePoolMethod |-> {"str"}]

RequestTypes ==
    [mediaFilePath |-> {"str"},
     computeDevice |-> {"str", "NoneType"},
     precision |-> {"str", "NoneType"},
     languageCode |-> {"str"},
     whisperModelSize |-> {"str", "NoneType"},
     cutoffPolicy |-> {"str"},
     embeddingAggregationPoolMethod |-> {"str"},
     minClipTime |-> {"float", "int"},
     maxClipTime |-> {"float", "int"},
     smoothingWidth |-> {"int"},
     windowComparePoolMethod |-> {"str"}]

InputDefaultKeys ==
    <<"computeDevice", "cutoffPolicy", "embeddingAggregationPoolMethod",
      "minClipTime", "maxClipTime", "smoothingWidth", "windowComparePoolMethod">>

\* InputDefaults with the two clip times exchanged
InputDefaultsSwapped ==
    [computeDevice |-> NoneVal,
     cutoffPolicy |-> PyStr(s_high),
     embeddingAggregationPoolMethod |-> PyStr(s_max),
     minClipTime |-> PyInt(900),
     maxClipTime |-> PyInt(15),
     smoothingWidth |-> PyInt(3),
     windowComparePoolMethod |-> PyStr(s_mean)]

InputDefaults ==
    [computeDevice |-> NoneVal,
     cutoffPolicy |-> PyStr(s_high),
     embeddingAggregationPoolMethod |-> PyStr(s_max),
     minClipTime |-> PyInt(15),
     maxClipTime |-> PyInt(900),
     smoothingWidth |-> PyInt(3),
     windowComparePoolMethod |-> PyStr(s_mean)]

RequestDefaultKeys ==
    <<"computeDevice", "precision", "languageCode", "whisperModelSize",
      "cutoffPolicy", "embeddingAggregationPoolMethod", "minClipTime",
      "maxClipTime", "smoothingWidth", "windowComparePoolMethod">>

RequestDefaults ==
    [computeDevice |-> NoneVal,
     precision |-> NoneVal,
     languageCode |-> PyStr(s_en),
     whisperModelSize |-> NoneVal,
     cutoffPolicy |-> PyStr(s_high),
     embeddingAggregationPoolMethod |-> PyStr(s_max),
     minClipTime |-> PyInt(15),
     maxClipTime |-> PyInt(900),
     smoothingWidth |-> PyInt(3),
     windowComparePoolMethod |-> PyStr(s_mean)]

Variants == {"input", "request"}

FieldsOf(v) == IF v = "input" THEN InputFields ELSE RequestFields

TypesOf(v) == IF v = "input" THEN InputTypes ELSE RequestTypes

DefaultKeysOf(v) == IF v = "input" THEN InputDefaultKeys ELSE RequestDefaultKeys

DefaultsOf(v) == IF v = "input" THEN InputDefaults ELSE RequestDefaults

Range(seq) == {seq[i] : i \in 1..Len(seq)}

----------------------------------------------------------------------------
\* InputValidator.check_input_data_existence_and_types and
\* RequestValidator.check_request_data_existence_and_types (base classes):
\* one pass over the type specification, in its order, from field i on.
\* An absent field is an error unless its accepted type-set contains
\* NoneType; a present field must have an accepted type.

RECURSIVE ExistenceAndTypesFrom(_, _, _, _)
ExistenceAndTypesFrom(d, fields, types, i) ==
    IF i > Len(fields) THEN NoError
    ELSE LET k == fields[i] IN
         IF k \notin DOMAIN d
         THEN IF "NoneType" \in types[k]
              THEN ExistenceAndTypesFrom(d, fields, types, i + 1)
              ELSE Err("MissingField", k, <<>>)
         ELSE IF d[k].ty \notin types[k]
              THEN Err("TypeMismatch", k, <<>>)
              ELSE ExistenceAndTypesFrom(d, fields, types, i + 1)

check_data_existence_and_types(d, fields, types) ==
    ExistenceAndTypesFrom(d, fields, types, 1)

----------------------------------------------------------------------------
\* utils.pytorch.check_valid_torch_device: "cpu" or "<name>[:<index>]"

Digits == {"0", "1", "2", "3", "4", "5", "6", "7", "8", "9"}

DeviceNames == {<<"c", "p", "u">>, <<"c", "u", "d", "a">>, <<"m", "p", "s">>}

ColonAt(chars) ==
    IF \E i \in 1..Len(chars) : chars[i] = ":"
    THEN CHOOSE i \in 1..Len(chars) :
             /\ chars[i] = ":"
             /\ \A j \in 1..(i - 1) : chars[j] # ":"
    ELSE 0

ValidDevice(chars) ==
    LET c == ColonAt(chars) IN
    IF c = 0 THEN chars \in DeviceNames
    ELSE /\ SubSeq(chars, 1, c - 1) \in DeviceNames
         /\ c < Len(chars)
         /\ \A j \in (c + 1)..Len(chars) : chars[j] \in Digits

check_valid_torch_device(device) ==
    IF ValidDevice(device.s) THEN NoError
    ELSE Err("InvalidDeviceSyntax", "computeDevice", device.s)

----------------------------------------------------------------------------
\* WhisperXTranscriberConfigManager.check_valid_config

ValidLanguages == {s_en, <<"f", "r">>}

ValidModelSizes == {<<"t", "i", "n", "y">>, <<"b", "a", "s", "e">>}

ValidPrecisions == {<<"i", "n", "t", "8">>, <<"f", "l", "o", "a", "t", "1", "6">>}

whisperx_check_valid_config(config) ==
    IF config["language"].s \notin ValidLanguages
    THEN Err("InvalidEnumValue", "language", config["language"].s)
    ELSE IF config["model_size"] # NoneVal /\ config["model_size"].s \notin ValidModelSizes
    THEN Err("InvalidEnumValue", "model_size", config["model_size"].s)
    ELSE IF config["precision"] # NoneVal /\ config["precision"].s \notin ValidPrecisions
    THEN Err("InvalidEnumValue", "precision", config["precision"].s)
    ELSE NoError

----------------------------------------------------------------------------
\* TextTileClipFinderConfigManager.check_valid_config

ValidCutoffPolicies == {s_high, <<"l", "o", "w">>, <<"a", "v", "e", "r", "a", "g", "e">>}

ValidPoolMethods == {s_max, s_mean}

texttile_check_valid_config(config) ==
    IF config["cutoff_policy"].s \notin ValidCutoffPolicies
    THEN Err("InvalidEnumValue", "cutoff_policy", config["cutoff_policy"].s)
    ELSE IF config["embedding_aggregation_pool_method"].s \notin ValidPoolMethods
    THEN Err("InvalidEnumValue", "embedding_aggregation_pool_method",
             config["embedding_aggregation_pool_method"].s)
    ELSE IF config["min_clip_duration_secs"].n < 0
    THEN Err("InvalidNumericRange", "min_clip_duration_secs", <<>>)
    ELSE IF config["max_clip_duration_secs"].n < config["min_clip_duration_secs"].n
    THEN Err("InvalidNumericRange", "max_clip_duration_secs", <<>>)
    ELSE IF config["smoothing_width"].n < 0
    THEN Err("InvalidNumericRange", "smoothing_width", <<>>)
    ELSE IF config["window_compare_pool_method"].s \notin ValidPoolMethods
    THEN Err("InvalidEnumValue", "window_compare_pool_method",
             config["window_compare_pool_method"].s)
    ELSE NoError

----------------------------------------------------------------------------
\* check_valid_input_data / check_valid_request_data

\* StepOrder with the file extension check placed before the existence check
StepOrderExtensionFirst(v) ==
    IF v = "input"
    THEN <<"extension", "existence", "device", "texttile">>
    ELSE <<"extension", "existence", "device", "whisperx", "texttile">>

\* the checks of a validator, in the order the method body runs them
StepOrder(v) ==
    IF v = "input"
    THEN <<"existence", "extension", "device", "texttile">>
    ELSE <<"existence", "extension", "device", "whisperx", "texttile">>

\* the position after step p: the next check, or "return" after the last
NextPc(v, p) ==
    LET order == StepOrder(v)
        i == CHOOSE j \in 1..Len(order) : order[j] = p
    IN IF i = Len(order) THEN "return" ELSE order[i + 1]

\* MediaPathOk with the suffixes written without their dot
MediaPathOkNoDot(path) == EndsWith(path, s_mp3) \/ EndsWith(path, s_mp4)

\* media_file_path.endswith((".mp3", ".mp4"))
MediaPathOk(path) == EndsWith(path, s_dot_mp3) \/ EndsWith(path, s_dot_mp4)

\* "mediaFilePath must be of type mp3 or mp4. Received: {}".format(path)
ExtensionError(path) == Err("InvalidExtension", "mediaFilePath", s_ext_msg \o path)

\* DeviceGiven without the None test
DeviceGivenAlways(d) == TRUE

\* input_data["computeDevice"] is not None
DeviceGiven(d) == d["computeDevice"] # NoneVal

\* the keys each sub-configuration dict literal reads, in evaluation order
WhisperxReads == <<"languageCode", "whisperModelSize", "precision">>

TexttileReads ==
    <<"cutoffPolicy", "embeddingAggregationPoolMethod", "maxClipTime",
      "minClipTime", "smoothingWidth", "windowComparePoolMethod">>

WhisperxConfig(d) ==
    [language |-> d["languageCode"],
     model_size |-> d["whisperModelSize"],
     precision |-> d["precision"]]

TexttileConfig(d) ==
    [cutoff_policy |-> d["cutoffPolicy"],
     embedding_aggregation_pool_method |-> d["embeddingAggregationPoolMethod"],
     max_clip_duration_secs |-> d["maxClipTime"],
     min_clip_duration_secs |-> d["minClipTime"],
     smoothing_width |-> d["smoothingWidth"],
     window_compare_pool_method |-> d["windowComparePoolMethod"]]

\* a dict literal creates a new object
NewId(h) == (CHOOSE i \in DOMAIN h : \A j \in DOMAIN h : j <= i) + 1

\* ConfigTarget writing the renamed fields into the caller's dict
ConfigTargetAlias(h, a) == a

\* the object a sub-configuration literal is stored in
ConfigTarget(h, a) == NewId(h)

\* h with the items of config written into object id
Store(h, id, config) ==
    [x \in DOMAIN h \cup {id} |->
        IF x # id THEN h[x]
        ELSE IF id \in DOMAIN h
             THEN [k \in DOMAIN h[id] \cup DOMAIN config |->
                      IF k \in DOMAIN config THEN config[k] ELSE h[id][k]]
             ELSE config]

----------------------------------------------------------------------------
\* impute_input_data_defaults / impute_request_data_defaults

\* ImputeKey testing data.get(key) is None instead of membership
ImputeKeyIfNone(d, k, default) ==
    IF k \notin DOMAIN d \/ d[k] = NoneVal THEN DictSet(d, k, default) ELSE d

\* if key not in data: data[key] = default
ImputeKey(d, k, default) == IF k \notin DOMAIN d THEN DictSet(d, k, default) ELSE d

RECURSIVE ImputeFrom(_, _, _, _)
ImputeFrom(d, keys, defaults, i) ==
    IF i > Len(keys) THEN d
    ELSE ImputeFrom(ImputeKey(d, keys[i], defaults[keys[i]]), keys, defaults, i + 1)

\* impute_data_defaults keeping only the defaults it inserted
ImputeOnlyMissing(d, v) ==
    [k \in Range(DefaultKeysOf(v)) \ DOMAIN d |-> DefaultsOf(v)[k]]

\* contents of the dict after the loop over the default table
impute_data_defaults(d, v) == ImputeFrom(d, DefaultKeysOf(v), DefaultsOf(v), 1)

\* the object the defaults are written to
ImputeTarget(h, a) == a

----------------------------------------------------------------------------
\* Mappings a caller may hand in: a base mapping with up to MaxPerturb
\* fields dropped or set to another value.

c_a == <<"a">>
c_bad == <<"b", "a", "d">>

FullMapping ==
    [mediaFilePath |-> PyStr(c_a \o s_dot_mp3),
     computeDevice |-> NoneVal,
     precision |-> NoneVal,
     languageCode |-> PyStr(s_en),
     whisperModelSize |-> NoneVal,
     cutoffPolicy |-> PyStr(s_high),
     embeddingAggregationPoolMethod |-> PyStr(s_max),
     minClipTime |-> PyInt(15),
     maxClipTime |-> PyInt(900),
     smoothingWidth |-> PyInt(3),
     windowComparePoolMethod |-> PyStr(s_mean)]

BareMapping == [mediaFilePath |-> PyStr(c_a \o s_dot_mp4)]

Absent == [ty |-> "absent", s |-> <<>>, n |-> 0]

Alternatives ==
    [mediaFilePath |->
        {PyStr(c_a \o <<".", "w", "a", "v">>), PyStr(c_a \o <<".", "M", "P", "3">>),
         PyStr(s_mp3), PyStr(s_dot_mp3), PyStr(<<>>), PyInt(5)},
     computeDevice |->
        {PyStr(<<"c", "u", "d", "a", ":", "0">>), PyStr(<<"c", "u", "d", "a", ":", "x">>),
         PyInt(1), NoneVal},
     precision |-> {PyStr(<<"i", "n", "t", "8">>), PyStr(c_bad)},
     languageCode |-> {PyStr(<<"z", "z">>), NoneVal},
     whisperModelSize |-> {PyStr(c_bad)},
     cutoffPolicy |-> {PyStr(c_bad), NoneVal},
     embeddingAggregationPoolMethod |-> {PyInt(0)},
     minClipTime |-> {PyInt(2000), PyFloat(20)},
     maxClipTime |-> {PyInt(10)},
     smoothingWidth |-> {PyFloat(3), PyInt(-1)},
     windowComparePoolMethod |-> {PyStr(c_bad)}]

Perturb(d, k, v) == IF v = Absent THEN DictDel(d, k) ELSE DictSet(d, k, v)

RECURSIVE Mappings(_)
Mappings(n) ==
    IF n = 0 THEN {FullMapping, BareMapping}
    ELSE LET M == Mappings(n - 1) IN
         M \cup {Perturb(d, k, v) : d \in M,
                 <<k, v>> \in UNION {{<<f, a>> : a \in Alternatives[f] \cup {Absent}} :
                                      f \in DOMAIN Alternatives}}

----------------------------------------------------------------------------
\* The state machine

NotReturned == Err("NotReturned", "", <<>>)

NoLastCheck == [v \in Variants |-> "notrun"]

Outcome(res, ex) ==
    IF ex # "" THEN "raised" ELSE IF res = NoError THEN "None" ELSE "error"

Init ==
    /\ arg = 1
    /\ \E d \in Mappings(MaxPerturb) : heap = [x \in {1} |-> d] /\ initial = d /\ before = d
    /\ pc = "idle"
    /\ op = "none"
    /\ variant = "input"
    /\ consulted = <<>>
    /\ texttile_config = 0
    /\ whisperx_config = 0
    /\ result = NotReturned
    /\ ret = 0
    /\ exc = ""
    /\ hist = <<>>
    /\ lastCheck = NoLastCheck

\* the running check returns res, or propagates the exception ex
Finish(res, ex) ==
    /\ pc' = "idle"
    /\ result' = res
    /\ exc' = ex
    /\ hist' = Append(hist, [op |-> "check", variant |-> variant, outcome |-> Outcome(res, ex)])
    /\ lastCheck' = [lastCheck EXCEPT ![variant] = Outcome(res, ex)]

\* the running check goes on to position p
Goto(p) ==
    IF p = "return" THEN Finish(NoError, "")
    ELSE /\ pc' = p
         /\ UNCHANGED <<result, exc, hist, lastCheck>>

CallCheck(v) ==
    /\ pc = "idle"
    /\ Len(hist) < MaxOps
    /\ pc' = StepOrder(v)[1]
    /\ op' = "check"
    /\ variant' = v
    /\ before' = heap[arg]
    /\ heap' = [x \in {arg} |-> heap[arg]]
    /\ consulted' = <<>>
    /\ texttile_config' = 0
    /\ whisperx_config' = 0
    /\ result' = NotReturned
    /\ exc' = ""
    /\ UNCHANGED <<arg, initial, ret, hist, lastCheck>>

StepExistence ==
    /\ pc = "existence"
    /\ LET error == check_data_existence_and_types(heap[arg], FieldsOf(variant),
                                                   TypesOf(variant))
       IN /\ consulted' = Append(consulted, "existence")
          /\ IF error # NoError THEN Finish(error, "") ELSE Goto(NextPc(variant, pc))
    /\ UNCHANGED <<heap, arg, initial, op, variant, before, texttile_config,
                   whisperx_config, ret>>

StepExtension ==
    /\ pc = "extension"
    /\ IF "mediaFilePath" \notin DOMAIN heap[arg]
       THEN /\ Finish(NotReturned, "KeyError")
            /\ UNCHANGED consulted
       ELSE IF heap[arg]["mediaFilePath"].ty # "str"
       THEN /\ Finish(NotReturned, "AttributeError")
            /\ UNCHANGED consulted
       ELSE LET media_file_path == heap[arg]["mediaFilePath"].s IN
            /\ consulted' = Append(consulted, "extension")
            /\ IF ~MediaPathOk(media_file_path)
               THEN Finish(ExtensionError(media_file_path), "")
               ELSE Goto(NextPc(variant, pc))
    /\ UNCHANGED <<heap, arg, initial, op, variant, before, texttile_config,
                   whisperx_config, ret>>

StepDevice ==
    /\ pc = "device"
    /\ IF "computeDevice" \notin DOMAIN heap[arg]
       THEN /\ Finish(NotReturned, "KeyError")
            /\ UNCHANGED consulted
       ELSE IF DeviceGiven(heap[arg])
       THEN LET error == check_valid_torch_device(heap[arg]["computeDevice"]) IN
            /\ consulted' = Append(consulted, "device")
            /\ IF error # NoError THEN Finish(error, "") ELSE Goto(NextPc(variant, pc))
       ELSE /\ Goto(NextPc(variant, pc))
            /\ UNCHANGED consulted
    /\ UNCHANGED <<heap, arg, initial, op, variant, before, texttile_config,
                   whisperx_config, ret>>

StepWhisperx ==
    /\ pc = "whisperx"
    /\ IF ~(Range(WhisperxReads) \subseteq DOMAIN heap[arg])
       THEN /\ Finish(NotReturned, "KeyError")
            /\ UNCHANGED <<heap, whisperx_config, consulted>>
       ELSE LET id == ConfigTarget(heap, arg)
                h == Store(heap, id, WhisperxConfig(heap[arg]))
                error == whisperx_check_valid_config(h[id])
            IN /\ heap' = h
               /\ whisperx_config' = id
               /\ consulted' = Append(consulted, "whisperx")
               /\ IF error # NoError THEN Finish(error, "") ELSE Goto(NextPc(variant, pc))
    /\ UNCHANGED <<arg, initial, op, variant, before, texttile_config, ret>>

StepTexttile ==
    /\ pc = "texttile"
    /\ IF ~(Range(TexttileReads) \subseteq DOMAIN heap[arg])
       THEN /\ Finish(NotReturned, "KeyError")
            /\ UNCHANGED <<heap, texttile_config, consulted>>
       ELSE LET id == ConfigTarget(heap, arg)
                h == Store(heap, id, TexttileConfig(heap[arg]))
                error == texttile_check_valid_config(h[id])
            IN /\ heap' = h
               /\ texttile_config' = id
               /\ consulted' = Append(consulted, "texttile")
               /\ IF error # NoError THEN Finish(error, "") ELSE Goto(NextPc(variant, pc))
    /\ UNCHANGED <<arg, initial, op, variant, before, whisperx_config, ret>>

Impute(v) ==
    /\ pc = "idle"
    /\ Len(hist) < MaxOps
    /\ LET id == ImputeTarget(heap, arg) IN
       /\ heap' = [x \in {arg, id} |->
                     IF x = id THEN impute_data_defaults(heap[arg], v) ELSE heap[arg]]
       /\ ret' = id
    /\ op' = "impute"
    /\ variant' = v
    /\ before' = heap[arg]
    /\ consulted' = <<>>
    /\ texttile_config' = 0
    /\ whisperx_config' = 0
    /\ result' = NotReturned
    /\ exc' = ""
    /\ hist' = Append(hist, [op |-> "impute", variant |-> v, outcome |-> "returned"])
    /\ lastCheck' = NoLastCheck
    /\ UNCHANGED <<arg, initial, pc>>

Next ==
    \/ \E v \in Variants : CallCheck(v)
    \/ StepExistence
    \/ StepExtension
    \/ StepDevice
    \/ StepWhisperx
    \/ StepTexttile
    \/ \E v \in Variants : Impute(v)

Spec == Init /\ [][Next]_vars

----------------------------------------------------------------------------
\* Vocabulary of the properties

d0 == before

\* sub occurs in chars
Contains(chars, sub) ==
    \E i \in 0..(Len(chars) - Len(sub)) : SubSeq(chars, i + 1, i + Len(sub)) = sub

CheckRunning == op = "check"

CheckDone == pc = "idle" /\ op = "check"

ImputeDone == pc = "idle" /\ op = "impute"

Returned == CheckDone /\ exc = ""

\* the fields of the type specification the existence-and-type check rejects
Rejected(d, v) ==
    {k \in Range(FieldsOf(v)) :
        \/ k \notin DOMAIN d /\ "NoneType" \notin TypesOf(v)[k]
        \/ k \in DOMAIN d /\ d[k].ty \notin TypesOf(v)[k]}

\* the fields of the type specification that are missing or of a disallowed type
MissingOrMistyped(d, v) ==
    {k \in Range(FieldsOf(v)) : k \notin DOMAIN d \/ d[k].ty \notin TypesOf(v)[k]}

\* the path ends, case-sensitively, in ".mp3" or ".mp4"
HasMediaSuffix(path) ==
    /\ Len(path) >= 4
    /\ path[Len(path) - 3] = "."
    /\ path[Len(path) - 2] = "m"
    /\ path[Len(path) - 1] = "p"
    /\ path[Len(path)] \in {"3", "4"}

\* the default values as documented
DocumentedDefaults(v) ==
    LET clip == [computeDevice |-> NoneVal,
                 cutoffPolicy |-> PyStr(<<"h", "i", "g", "h">>),
                 embeddingAggregationPoolMethod |-> PyStr(<<"m", "a", "x">>),
                 minClipTime |-> PyInt(15),
                 maxClipTime |-> PyInt(900),
                 smoothingWidth |-> PyInt(3),
                 windowComparePoolMethod |-> PyStr(<<"m", "e", "a", "n">>)]
        transcribe == [precision |-> NoneVal,
                       languageCode |-> PyStr(<<"e", "n">>),
                       whisperModelSize |-> NoneVal]
    IN IF v = "input" THEN clip
       ELSE [k \in DOMAIN clip \cup DOMAIN transcribe |->
                IF k \in DOMAIN clip THEN clip[k] ELSE transcribe[k]]

\* d with None for every absent field whose accepted type-set contains NoneType
WithNulls(d, v) ==
    [k \in DOMAIN d \cup {f \in Range(FieldsOf(v)) : "NoneType" \in TypesOf(v)[f]} |->
        IF k \in DOMAIN d THEN d[k] ELSE NoneVal]

\* the error of step i (1 existence/type, 2 extension, 3 device, 4 transcriber
\* config, 5 clip-finder config) on mapping d taken alone, NoError if it passes
StepError(i, d, v) ==
    LET e == WithNulls(d, v) IN
    CASE i = 1 -> check_data_existence_and_types(d, FieldsOf(v), TypesOf(v))
      [] i = 2 -> IF "mediaFilePath" \in DOMAIN e /\ ~HasMediaSuffix(e["mediaFilePath"].s)
                  THEN ExtensionError(e["mediaFilePath"].s) ELSE NoError
      [] i = 3 -> IF e["computeDevice"] # NoneVal
                  THEN check_valid_torch_device(e["computeDevice"]) ELSE NoError
      [] i = 4 -> IF v = "request" /\ Range(WhisperxReads) \subseteq DOMAIN e
                  THEN whisperx_check_valid_config(WhisperxConfig(e)) ELSE NoError
      [] i = 5 -> IF Range(TexttileReads) \subseteq DOMAIN e
                  THEN texttile_check_valid_config(TexttileConfig(e)) ELSE NoError

ViolatedSteps(d, v) == {i \in 1..5 : StepError(i, d, v) # NoError}

\* the error of the lowest-numbered violated step, NoError if no step is violated
FirstStepError(d, v) ==
    LET V == ViolatedSteps(d, v) IN
    IF V = {} THEN NoError
    ELSE StepError(CHOOSE i \in V : \A j \in V : i <= j, d, v)

----------------------------------------------------------------------------
\* C1: check_valid_*_data runs its checks in the fixed order 1 existence/type,
\* 2 extension, 3 device, 4 transcriber config (request only), 5 clip-finder
\* config; every finished call returns the error of the lowest-numbered
\* violated step, and returns None if and only if every step passes.
C1_ReturnsFirstFailingStep ==
    CheckDone => /\ exc = ""
                 /\ result = FirstStepError(d0, variant)

\* The part of C1 that the code does keep: a call that returns, returns the
\* error of the lowest-numbered violated step, after running the checks in order.
C1_OrderWhenReturning ==
    /\ CheckRunning =>
          \A i, j \in 1..Len(consulted) :
             i < j => \E a, b \in 1..Len(StepOrder(variant)) :
                         /\ a < b
                         /\ StepOrder(variant)[a] = consulted[i]
                         /\ StepOrder(variant)[b] = consulted[j]
    /\ Returned => result = FirstStepError(d0, variant)

C3_NeverRaises ==
    CheckDone => /\ exc = ""
                 /\ result # NotReturned

\* C4: impute_*_data_defaults inserts the documented default for every absent
\* key of the default table, keeps every key already present (one set to
\* null included), adds or changes no other key, and returns the mapping
\* object it was given.
C4_ImputeInsertsDocumentedDefaults ==
    ImputeDone =>
        LET doc == DocumentedDefaults(variant) IN
        /\ ret = arg
        /\ DOMAIN heap[arg] = DOMAIN d0 \cup DOMAIN doc
        /\ \A k \in DOMAIN d0 : heap[arg][k] = d0[k]
        /\ \A k \in DOMAIN doc \ DOMAIN d0 : heap[arg][k] = doc[k]

\* a request mapping with cutoffPolicy explicitly null and other keys absent
C4_Witness ==
    /\ ImputeDone
    /\ variant = "request"
    /\ "cutoffPolicy" \in DOMAIN d0 /\ d0["cutoffPolicy"] = NoneVal
    /\ "languageCode" \notin DOMAIN d0
    /\ heap[arg] # d0

\* C5: impute_*_data_defaults is idempotent: once a validator's defaults have
\* been imputed, imputing them again changes nothing.
C5_ImputeIdempotent ==
    [][(/\ op' = "impute"
        /\ Len(hist') = Len(hist) + 1
        /\ \E i \in 1..Len(hist) : /\ hist[i].op = "impute"
                                   /\ hist[i].variant = variant')
       => (heap'[arg'] = heap[arg] /\ ret' = arg)]_vars

\* defaults imputed twice in a row on a mapping that lacked some
C5_Witness ==
    /\ ImputeDone
    /\ Len(hist) = 2
    /\ hist[1].op = "impute" /\ hist[1].variant = variant
    /\ heap[arg] # initial
    /\ heap[arg] = d0

\* C6: once the existence-and-type check has passed, the extension step fails
\* if and only if mediaFilePath does not end, case-sensitively, in ".mp3" or
\* ".mp4"; the message then holds the received path verbatim and names mp3
\* and mp4.
C6_ExtensionStep ==
    /\ (CheckDone /\ Rejected(d0, variant) = {}) => "extension" \in Range(consulted)
    /\ (CheckRunning /\ "extension" \in Range(consulted)) =>
          LET path == d0["mediaFilePath"].s IN
          IF HasMediaSuffix(path)
          THEN result.kind # "InvalidExtension"
          ELSE /\ CheckDone
               /\ exc = ""
               /\ result.kind = "InvalidExtension"
               /\ EndsWith(result.text, path)
               /\ Contains(result.text, <<"m", "p", "3">>)
               /\ Contains(result.text, <<"m", "p", "4">>)
               /\ consulted = <<"existence", "extension">>

\* an upper-case extension is refused
C6_Witness ==
    /\ CheckDone
    /\ result.kind = "InvalidExtension"
    /\ d0["mediaFilePath"].s = <<"a", ".", "M", "P", "3">>

\* C7: a null computeDevice never produces a device error and the device
\* checker is not consulted; the step is passed over only for null; for a
\* non-null computeDevice the checker is consulted and its error is returned
\* unchanged with no config check run afterwards.
C7_DeviceStep ==
    CheckRunning =>
        /\ ("computeDevice" \in DOMAIN d0 /\ d0["computeDevice"] = NoneVal) =>
              /\ "device" \notin Range(consulted)
              /\ result.kind # "InvalidDeviceSyntax"
        /\ (/\ "device" \notin Range(consulted)
            /\ \/ pc \in {"whisperx", "texttile"}
               \/ Range(consulted) \cap {"whisperx", "texttile"} # {}
               \/ Returned /\ result = NoError) =>
              ("computeDevice" \in DOMAIN d0 /\ d0["computeDevice"] = NoneVal)
        /\ (/\ CheckDone
            /\ "extension" \in Range(consulted)
            /\ result.kind # "InvalidExtension"
            /\ "computeDevice" \in DOMAIN d0
            /\ d0["computeDevice"] # NoneVal) =>
              LET error == check_valid_torch_device(d0["computeDevice"]) IN
              /\ "device" \in Range(consulted)
              /\ error # NoError =>
                    /\ exc = ""
                    /\ result = error
                    /\ consulted = <<"existence", "extension", "device">>
                    /\ texttile_config = 0 /\ whisperx_config = 0

\* a device error returned although the clip-finder config is invalid too
C7_Witness ==
    /\ CheckDone
    /\ result.kind = "InvalidDeviceSyntax"
    /\ result.text = d0["computeDevice"].s
    /\ StepError(5, d0, variant) # NoError

\* C8: a mapping carrying the documented default of every optional field and
\* a mediaFilePath ending in .mp3 or .mp4 is valid, so on a mapping holding
\* only such a mediaFilePath impute_*_data_defaults followed by
\* check_valid_*_data returns None.
C8_DefaultsAreValid ==
    /\ (/\ CheckDone
        /\ \A k \in DOMAIN DocumentedDefaults(variant) :
              k \in DOMAIN d0 /\ d0[k] = DocumentedDefaults(variant)[k]
        /\ "mediaFilePath" \in DOMAIN d0
        /\ d0["mediaFilePath"].ty = "str"
        /\ HasMediaSuffix(d0["mediaFilePath"].s)) => (exc = "" /\ result = NoError)
    /\ (/\ CheckDone
        /\ Len(hist) = 2
        /\ hist[1].op = "impute" /\ hist[1].variant = variant
        /\ DOMAIN initial = {"mediaFilePath"}
        /\ initial["mediaFilePath"].ty = "str"
        /\ HasMediaSuffix(initial["mediaFilePath"].s)) => (exc = "" /\ result = NoError)

\* only a media path, request defaults imputed, then validated
C8_Witness ==
    /\ CheckDone
    /\ variant = "request"
    /\ Len(hist) = 2
    /\ hist[1].op = "impute" /\ hist[1].variant = "request"
    /\ DOMAIN initial = {"mediaFilePath"}
    /\ result = NoError

\* C9: validation is read-only: during and after check_valid_*_data, on every
\* outcome, the caller's mapping has the keys and values it had when the call
\* started, and the sub-configuration mappings are other objects.
C9_CheckIsReadOnly ==
    CheckRunning =>
        /\ heap[arg] = d0
        /\ texttile_config # arg
        /\ whisperx_config # arg

\* both sub-configuration mappings built, and an error returned
C9_Witness ==
    /\ CheckDone
    /\ whisperx_config # 0
    /\ texttile_config # 0
    /\ {whisperx_config, texttile_config} \subseteq DOMAIN heap
    /\ result.kind = "InvalidNumericRange"

\* C10: the request validator is a superset of the input validator: same
\* fields, accepted type-sets and defaults on the shared keys, so a mapping
\* check_valid_request_data accepts is accepted by check_valid_input_data, and
\* both impute operations insert the same value on every shared key.
C10_RequestSupersetOfInput ==
    /\ \A k \in Range(InputFields) :
          k \in Range(RequestFields) /\ InputTypes[k] = RequestTypes[k]
    /\ Range(RequestFields) # Range(InputFields)
    /\ \A k \in Range(InputDefaultKeys) :
          k \in Range(RequestDefaultKeys) /\ InputDefaults[k] = RequestDefaults[k]
    /\ (pc = "idle" /\ lastCheck["request"] = "None") =>
          lastCheck["input"] \in {"notrun", "None"}
    /\ ImputeDone =>
          \A k \in (Range(InputDefaultKeys) \cap Range(RequestDefaultKeys)) \ DOMAIN d0 :
             heap[arg][k] = InputDefaults[k] /\ heap[arg][k] = RequestDefaults[k]

\* the same mapping accepted by the request validator, then by the input one
C10_Witness ==
    /\ pc = "idle"
    /\ Len(hist) = 2
    /\ hist[1] = [op |-> "check", variant |-> "request", outcome |-> "None"]
    /\ hist[2] = [op |-> "check", variant |-> "input", outcome |-> "None"]

====
